---- MODULE Spec2Model ----
(***************************************************************************)
(* The Virtuoso triple-store adapter of the NUJ monitor                     *)
(* (src/services/database-adapter/virtuoso_adapter.py) together with the    *)
(* store it talks to.  Text is a sequence of one-character strings, a       *)
(* query document is the record of the values the f-string template         *)
(* embeds, and the store reads every quoted literal of a document with the  *)
(* string-literal rules of the query grammar.                               *)
(***************************************************************************)
EXTENDS Integers, Sequences, FiniteSets, TLC

VARIABLES platforms, changes, now, clientClosed, sent, last

vars == <<platforms, changes, now, clientClosed, sent, last>>

(***************************************************************************)
(* Bounds of the model.                                                     *)
(***************************************************************************)
MaxRequests == 3
MaxInserts == 2
MaxTime == 1

(***************************************************************************)
(* Characters and text.                                                     *)
(***************************************************************************)
DQ == "\""
BS == "\\"

\* characters rdflib's URIRef.n3() refuses to serialise (of the model's alphabet)
InvalidUriChars == {DQ, BS, ">"}


CRITICAL == <<"c">>
LOW == <<"l">>

\* An identifier of the allowed set, one outside it that URIRef.n3()
\* serialises, and one it refuses.
GoodId == <<"a">>
OtherId == <<"b">>
SlashId == <<"a", "/">>
AngleId == <<"a", ">">>

\* insert_platform is called with these arguments
PlatformBase ==
  [platform_id |-> GoodId, name |-> <<"n">>, display_name |-> <<"A">>,
   api_enabled |-> TRUE, monitoring_active |-> TRUE]
PlatformCalls ==
  {PlatformBase,
   [PlatformBase EXCEPT !.display_name = <<BS, BS>>],
   [PlatformBase EXCEPT !.platform_id = SlashId, !.api_enabled = FALSE,
                        !.monitoring_active = FALSE],
   [PlatformBase EXCEPT !.platform_id = AngleId],
   [PlatformBase EXCEPT !.name = <<"n", BS>>],
   [PlatformBase EXCEPT !.display_name = <<DQ>>]}

\* insert_policy_change is called with these arguments; confidence scores are
\* in tenths (5 is 0.5, 15 is 1.5), detected_at is the caller's current time
ChangeBodies ==
  {<<CRITICAL, 5, <<"h", "x">>>>, <<LOW, 15, <<"h", "x">>>>,
   <<LOW, 5, <<BS, DQ>>>>, <<CRITICAL, 15, <<BS, DQ>>>>}
ChangeBase ==
  [change_id |-> GoodId, platform_id |-> GoodId, policy_document_id |-> GoodId,
   severity |-> CRITICAL, confidence_score |-> 5, change_summary |-> <<"h", "x">>,
   requires_notification |-> TRUE]
ChangeCalls ==
  {[ChangeBase EXCEPT !.change_id = i, !.severity = b[1],
                      !.confidence_score = b[2], !.change_summary = b[3]] :
     i \in {GoodId, OtherId}, b \in ChangeBodies}
  \cup {[ChangeBase EXCEPT !.change_id = AngleId],
        [ChangeBase EXCEPT !.platform_id = AngleId],
        [ChangeBase EXCEPT !.policy_document_id = SlashId,
                           !.requires_notification = FALSE,
                           !.change_summary = <<"h", DQ>>]}

PlatformIds == {GoodId, SlashId, AngleId}
KeywordLists == {<<>>, <<<<"h">>>>, <<<<DQ>>>>, <<<<"z">>, <<"h">>>>}
Days == {1}
\* an absent optional filter is the empty text (None and "" are both falsy)
SeverityFilters == {<<>>, CRITICAL, <<DQ>>}
PlatformFilters == {<<>>, <<"A">>}
Graphs == {"platforms", "changes"}

\* the status codes the store answers with
OK == 200
Failure == 500
BadRequest == 400

\* the page sizes of the two select queries
RecentLimit == 100
SearchLimit == 50

(***************************************************************************)
(* The string-literal rules of the query grammar:                           *)
(*   '"' ( [^"\] | '\' ["\] )* '"'                                          *)
(* LexFrom reads the literal that opens at position 1 of frag, returning    *)
(* where it ends and the text it denotes; end = 0 when it never closes or   *)
(* holds a bad escape.                                                      *)
(***************************************************************************)
RECURSIVE LexFrom(_, _, _)
LexFrom(frag, i, acc) ==
  IF i > Len(frag) THEN [end |-> 0, value |-> acc]
  ELSE IF frag[i] = DQ THEN [end |-> i, value |-> acc]
  ELSE IF frag[i] = BS
    THEN IF i + 1 <= Len(frag) /\ frag[i + 1] \in {DQ, BS}
           THEN LexFrom(frag, i + 2, Append(acc, frag[i + 1]))
           ELSE [end |-> 0, value |-> acc]
  ELSE LexFrom(frag, i + 1, Append(acc, frag[i]))

ParseLiteral(frag) == LexFrom(frag, 2, <<>>)

\* the fragment is one literal and nothing else
OneLiteral(frag) == ParseLiteral(frag).end = Len(frag)

\* "{value}" of an f-string: the value between two quotes, nothing escaped
Quote(s) == <<DQ>> \o s \o <<DQ>>

\* str.replace('"', '\\"'): a backslash before every double quote
\* (the backslash inside the f-string expression needs Python 3.12 or later;
\* an earlier interpreter rejects the whole module with a SyntaxError)
RECURSIVE replace(_)
replace(s) ==
  IF s = <<>> THEN <<>>
  ELSE (IF Head(s) = DQ THEN <<BS, DQ>> ELSE <<Head(s)>>) \o replace(Tail(s))

\* URIRef.n3() raises when the URI holds a character it cannot serialise
n3Raises(id) == \E i \in 1..Len(id) : id[i] \in InvalidUriChars

PLATFORM(id) == <<"platform", id>>
CHANGE(id) == <<"change", id>>
POLICY(id) == <<"policy", id>>

(***************************************************************************)
(* The store: two named graphs, each a relation per predicate.              *)
(***************************************************************************)
EmptyPlatforms ==
  [type |-> {}, label |-> {}, name |-> {}, apiEnabled |-> {},
   monitoringActive |-> {}, createdAt |-> {}]

EmptyChanges ==
  [type |-> {}, affectsPlatform |-> {}, affectsPolicy |-> {}, severity |-> {},
   confidenceScore |-> {}, changeSummary |-> {}, requiresNotification |-> {},
   detectedAt |-> {}, label |-> {}]

NoDoc == [form |-> "none"]
NoValue == [kind |-> "none"]

Init ==
  /\ platforms = EmptyPlatforms
  /\ changes = EmptyChanges
  /\ now = 0
  /\ clientClosed = FALSE
  /\ sent = 0
  /\ last = [op |-> "init", args |-> <<>>, outcome |-> "none", requested |-> FALSE,
             status |-> 0, doc |-> NoDoc, value |-> NoValue]

\* the clock of datetime.utcnow() advances
Tick ==
  /\ now < MaxTime
  /\ now' = now + 1
  /\ UNCHANGED <<platforms, changes, clientClosed, sent, last>>

(***************************************************************************)
(* What an operation leaves behind: the exception it raised or the value    *)
(* it returned, whether a request went to the store, and the document.      *)
(***************************************************************************)
Raised(op, args, exc) ==
  [op |-> op, args |-> args, outcome |-> exc, requested |-> FALSE,
   status |-> 0, doc |-> NoDoc, value |-> NoValue]

Answered(op, args, outcome, status, doc, value) ==
  [op |-> op, args |-> args, outcome |-> outcome, requested |-> TRUE,
   status |-> status, doc |-> doc, value |-> value]

\* response.raise_for_status(): any status other than success raises
raise_for_status(status) == status # OK

(***************************************************************************)
(* The insert documents.                                                    *)
(***************************************************************************)
PlatformDoc(platform_id, name, display_name, api_enabled, monitoring_active) ==
  [form |-> "insert_platform",
   subject |-> PLATFORM(platform_id),
   label |-> Quote(display_name),
   name |-> Quote(name),
   apiEnabled |-> api_enabled,
   monitoringActive |-> monitoring_active,
   createdAt |-> now]

ChangeDoc(call) ==
  [form |-> "insert_policy_change",
   subject |-> CHANGE(call.change_id),
   affectsPlatform |-> PLATFORM(call.platform_id),
   affectsPolicy |-> POLICY(call.policy_document_id),
   severity |-> Quote(call.severity),
   confidenceScore |-> call.confidence_score,
   changeSummary |-> Quote(replace(call.change_summary)),
   requiresNotification |-> call.requires_notification,
   detectedAt |-> call.detected_at]

\* the quoted literals of a document, as the store's parser meets them
DocLiterals(doc) ==
  CASE doc.form = "insert_platform" -> {doc.label, doc.name}
    [] doc.form = "insert_policy_change" -> {doc.severity, doc.changeSummary}
    [] doc.form = "semantic_search" -> {doc.keywords[i] : i \in 1..Len(doc.keywords)}
    [] doc.form = "query_recent_changes" ->
         {doc.severity_filter, doc.platform_filter} \ {<<>>}
    [] OTHER -> {}

\* the store parses the document: every quoted literal must be one literal,
\* and a FILTER must hold an expression
StoreParses(doc) ==
  /\ \A frag \in DocLiterals(doc) : OneLiteral(frag)
  /\ doc.form = "semantic_search" => doc.keywords # <<>>

\* the statuses the store can answer a document with
StoreStatuses(doc) == IF StoreParses(doc) THEN {OK, Failure} ELSE {BadRequest}

\* INSERT DATA adds the document's triples to the named graph
InsertPlatformData(g, doc) ==
  [type |-> g.type \cup {doc.subject},
   label |-> g.label \cup {<<doc.subject, ParseLiteral(doc.label).value>>},
   name |-> g.name \cup {<<doc.subject, ParseLiteral(doc.name).value>>},
   apiEnabled |-> g.apiEnabled \cup {<<doc.subject, doc.apiEnabled>>},
   monitoringActive |-> g.monitoringActive \cup {<<doc.subject, doc.monitoringActive>>},
   createdAt |-> g.createdAt \cup {<<doc.subject, doc.createdAt>>}]

InsertChangeData(g, doc) ==
  [type |-> g.type \cup {doc.subject},
   affectsPlatform |-> g.affectsPlatform \cup {<<doc.subject, doc.affectsPlatform>>},
   affectsPolicy |-> g.affectsPolicy \cup {<<doc.subject, doc.affectsPolicy>>},
   severity |-> g.severity \cup {<<doc.subject, ParseLiteral(doc.severity).value>>},
   confidenceScore |-> g.confidenceScore \cup {<<doc.subject, doc.confidenceScore>>},
   changeSummary |->
     g.changeSummary \cup {<<doc.subject, ParseLiteral(doc.changeSummary).value>>},
   requiresNotification |->
     g.requiresNotification \cup {<<doc.subject, doc.requiresNotification>>},
   detectedAt |-> g.detectedAt \cup {<<doc.subject, doc.detectedAt>>},
   label |-> g.label]

(***************************************************************************)
(* insert_platform                                                          *)
(***************************************************************************)
insert_platform ==
  \E args \in PlatformCalls :
    LET platform_id == args.platform_id
        doc == PlatformDoc(platform_id, args.name, args.display_name,
                           args.api_enabled, args.monitoring_active)
    IN  IF n3Raises(platform_id)
          THEN /\ last' = Raised("insert_platform", args, "Exception")
               /\ UNCHANGED <<platforms, changes, now, clientClosed, sent>>
        ELSE IF clientClosed
          THEN /\ last' = Raised("insert_platform", args, "RuntimeError")
               /\ UNCHANGED <<platforms, changes, now, clientClosed, sent>>
        ELSE /\ sent < MaxInserts
             /\ sent' = sent + 1
             /\ \E status \in StoreStatuses(doc) :
                  /\ platforms' = IF status = OK THEN InsertPlatformData(platforms, doc)
                                  ELSE platforms
                  /\ last' = IF raise_for_status(status)
                               THEN Answered("insert_platform", args, "HTTPStatusError",
                                             status, doc, NoValue)
                               ELSE Answered("insert_platform", args, "ok", status, doc,
                                             [kind |-> "bool", ok |-> TRUE])
             /\ UNCHANGED <<changes, now, clientClosed>>

(***************************************************************************)
(* insert_policy_change                                                     *)
(***************************************************************************)
insert_policy_change ==
  \E call \in ChangeCalls, detected_at \in {now} :
    LET args == [change_id |-> call.change_id, platform_id |-> call.platform_id,
                 policy_document_id |-> call.policy_document_id,
                 severity |-> call.severity,
                 confidence_score |-> call.confidence_score,
                 change_summary |-> call.change_summary,
                 requires_notification |-> call.requires_notification,
                 detected_at |-> detected_at]
        change_id == args.change_id
        platform_id == args.platform_id
        policy_document_id == args.policy_document_id
        doc == ChangeDoc(args)
    IN  IF n3Raises(change_id) \/ n3Raises(platform_id) \/ n3Raises(policy_document_id)
          THEN /\ last' = Raised("insert_policy_change", args, "Exception")
               /\ UNCHANGED <<platforms, changes, now, clientClosed, sent>>
        ELSE IF clientClosed
          THEN /\ last' = Raised("insert_policy_change", args, "RuntimeError")
               /\ UNCHANGED <<platforms, changes, now, clientClosed, sent>>
        ELSE /\ sent < MaxInserts
             /\ sent' = sent + 1
             /\ \E status \in StoreStatuses(doc) :
                  /\ changes' = IF status = OK THEN InsertChangeData(changes, doc)
                                ELSE changes
                  /\ last' = IF raise_for_status(status)
                               THEN Answered("insert_policy_change", args,
                                             "HTTPStatusError", status, doc, NoValue)
                               ELSE Answered("insert_policy_change", args, "ok", status,
                                             doc, [kind |-> "bool", ok |-> TRUE])
             /\ UNCHANGED <<platforms, now, clientClosed>>

(***************************************************************************)
(* The store evaluates the select queries.                                  *)
(***************************************************************************)
\* objects of a predicate for a subject, in one relation
Objects(rel, subj) == {t[2] : t \in {u \in rel : u[1] = subj}}

\* "?platform rdfs:label ?platformLabel" outside any GRAPH clause matches the
\* default graph: nothing when it is the store's own (empty) default graph,
\* the platforms graph's labels when the store unions the named graphs
DefaultGraphLabels(union, platform) ==
  IF union THEN Objects(platforms.label, platform) ELSE {}

\* CONTAINS(?summary, kw)
CONTAINS(summary, kw) ==
  \E i \in 0..(Len(summary) - Len(kw)) : SubSeq(summary, i + 1, i + Len(kw)) = kw

\* the range of a relation
Range(rel) == {t[2] : t \in rel}

\* ORDER BY DESC(?detectedAt): the newest solution first
RECURSIVE OrderByDesc(_)
OrderByDesc(rows) ==
  IF rows = {} THEN <<>>
  ELSE LET r == CHOOSE x \in rows : \A y \in rows : y.detectedAt <= x.detectedAt
       IN  <<r>> \o OrderByDesc(rows \ {r})

\* LIMIT n
Limit(seq, n) == SubSeq(seq, 1, IF Len(seq) < n THEN Len(seq) ELSE n)

\* the solutions of the recent-changes pattern: every triple pattern, the
\* label's included, is inside GRAPH <changes>
RecentSolutions(doc) ==
  {r \in [change : changes.type,
          platform : Range(changes.affectsPlatform),
          platformLabel : Range(changes.label),
          severity : Range(changes.severity),
          confidence : Range(changes.confidenceScore),
          summary : Range(changes.changeSummary),
          detectedAt : Range(changes.detectedAt)] :
     /\ <<r.change, r.platform>> \in changes.affectsPlatform
     /\ <<r.change, r.severity>> \in changes.severity
     /\ <<r.change, r.confidence>> \in changes.confidenceScore
     /\ <<r.change, r.summary>> \in changes.changeSummary
     /\ <<r.change, r.detectedAt>> \in changes.detectedAt
     /\ <<r.platform, r.platformLabel>> \in changes.label
     /\ r.detectedAt > doc.since
     /\ doc.severity_filter # <<>> =>
          r.severity = ParseLiteral(doc.severity_filter).value
     /\ doc.platform_filter # <<>> =>
          r.platformLabel = ParseLiteral(doc.platform_filter).value}

\* the solutions of the search pattern: the change inside GRAPH <changes>,
\* the label outside it
SearchSolutions(union, doc) ==
  {r \in [change : changes.type,
          platform : Range(changes.affectsPlatform),
          platformLabel : IF union THEN Range(platforms.label) ELSE {},
          severity : Range(changes.severity),
          summary : Range(changes.changeSummary),
          detectedAt : Range(changes.detectedAt)] :
     /\ <<r.change, r.platform>> \in changes.affectsPlatform
     /\ <<r.change, r.severity>> \in changes.severity
     /\ <<r.change, r.summary>> \in changes.changeSummary
     /\ <<r.change, r.detectedAt>> \in changes.detectedAt
     /\ r.platformLabel \in DefaultGraphLabels(union, r.platform)
     /\ \E i \in 1..Len(doc.keywords) :
          CONTAINS(r.summary, ParseLiteral(doc.keywords[i]).value)}

RECURSIVE Sum(_)
Sum(rows) ==
  IF rows = {} THEN 0
  ELSE LET r == CHOOSE x \in rows : TRUE IN r.confidence + Sum(rows \ {r})

\* the inner SELECT ?change ?confidence of the statistics query
StatsInner(platform) ==
  {[change |-> c, confidence |-> conf] :
     <<c, conf>> \in {t \in changes.confidenceScore :
                        /\ t[1] \in changes.type
                        /\ <<t[1], platform>> \in changes.affectsPlatform}}

\* the OPTIONAL block of the statistics query, against the default graph
StatsCritical(union, platform) ==
  IF union
    THEN {t[1] : t \in {u \in changes.severity :
                          /\ u[2] = CRITICAL
                          /\ <<u[1], platform>> \in changes.affectsPlatform}}
    ELSE {}

\* the aggregate row: the inner rows, each joined with every critical change
StatsRow(union, platform) ==
  LET inner == StatsInner(platform)
      crit == StatsCritical(union, platform)
      mult == IF crit = {} THEN 1 ELSE Cardinality(crit)
  IN  [present |-> {"totalChanges", "criticalChanges", "avgConfidence"},
       totalChanges |-> Cardinality({r.change : r \in inner}),
       criticalChanges |-> Cardinality(crit),
       avgConfidence |-> [sum |-> mult * Sum(inner),
                          count |-> mult * Cardinality(inner)]]

\* the aggregate row over no solutions, as stores answer it: counts of zero,
\* the average unbound or zero
ZeroRows ==
  {[present |-> {"totalChanges", "criticalChanges"}, totalChanges |-> 0,
    criticalChanges |-> 0, avgConfidence |-> [sum |-> 0, count |-> 0]],
   [present |-> {"totalChanges", "criticalChanges", "avgConfidence"},
    totalChanges |-> 0, criticalChanges |-> 0,
    avgConfidence |-> [sum |-> 0, count |-> 1]]}

\* the binding lists the store can answer the statistics query with
StatsBindings(union, platform) ==
  IF StatsInner(platform) = {}
    THEN {<<>>} \cup {<<z>> : z \in ZeroRows}
    ELSE {<<StatsRow(union, platform)>>}

\* the returned dict: bindings[0], or {} when there is none
EmptyDict ==
  [present |-> {}, totalChanges |-> 0, criticalChanges |-> 0,
   avgConfidence |-> [sum |-> 0, count |-> 0]]

(***************************************************************************)
(* query_recent_changes: the two optional filters are built, then the       *)
(* template's time bound looks up timedelta.  The module never imports it   *)
(* (only main() does, locally), so the lookup raises NameError before       *)
(* execute_sparql is reached.                                               *)
(***************************************************************************)
severity_filter(severity) == IF severity # <<>> THEN Quote(severity) ELSE <<>>
platform_filter(platform) == IF platform # <<>> THEN Quote(platform) ELSE <<>>

\* the names bound at module level by the import statements
ModuleNames ==
  {"Optional", "List", "Dict", "Any", "dataclass", "datetime", "httpx", "Graph",
   "Namespace", "Literal", "URIRef", "RDF", "RDFS", "XSD", "OWL"}

RecentDoc(days, severity, platform) ==
  [form |-> "query_recent_changes",
   severity_filter |-> severity_filter(severity),
   platform_filter |-> platform_filter(platform),
   since |-> now - days]

query_recent_changes ==
  \E days \in Days, severity \in SeverityFilters, platform \in PlatformFilters :
    LET args == [days |-> days, severity |-> severity, platform |-> platform]
        doc == RecentDoc(days, severity, platform)
    IN  IF "timedelta" \notin ModuleNames
          THEN /\ last' = Raised("query_recent_changes", args, "NameError")
               /\ UNCHANGED <<platforms, changes, now, clientClosed, sent>>
        ELSE IF clientClosed
          THEN /\ last' = Raised("query_recent_changes", args, "RuntimeError")
               /\ UNCHANGED <<platforms, changes, now, clientClosed, sent>>
        ELSE /\ sent < MaxRequests
             /\ sent' = sent + 1
             /\ \E status \in StoreStatuses(doc), shaped \in BOOLEAN :
                  last' = IF raise_for_status(status)
                            THEN Answered("query_recent_changes", args,
                                          "HTTPStatusError", status, doc, NoValue)
                            ELSE Answered("query_recent_changes", args, "ok", status,
                                          doc,
                                          [kind |-> "rows", shaped |-> shaped,
                                           rows |-> IF shaped
                                                      THEN Limit(OrderByDesc(
                                                             RecentSolutions(doc)),
                                                             RecentLimit)
                                                      ELSE <<>>])
             /\ UNCHANGED <<platforms, changes, now, clientClosed>>

(***************************************************************************)
(* query_platform_statistics                                                *)
(***************************************************************************)
query_platform_statistics ==
  \E platform_id \in PlatformIds :
    LET args == [platform_id |-> platform_id]
        doc == [form |-> "query_platform_statistics",
                platform |-> PLATFORM(platform_id)]
    IN  IF n3Raises(platform_id)
          THEN /\ last' = Raised("query_platform_statistics", args, "Exception")
               /\ UNCHANGED <<platforms, changes, now, clientClosed, sent>>
        ELSE IF clientClosed
          THEN /\ last' = Raised("query_platform_statistics", args, "RuntimeError")
               /\ UNCHANGED <<platforms, changes, now, clientClosed, sent>>
        ELSE /\ sent < MaxRequests
             /\ sent' = sent + 1
             /\ \E status \in StoreStatuses(doc), union \in BOOLEAN, shaped \in BOOLEAN :
                  \E bindings \in (IF shaped
                                     THEN StatsBindings(union, PLATFORM(platform_id))
                                     ELSE {<<>>}) :
                    last' = IF raise_for_status(status)
                              THEN Answered("query_platform_statistics", args,
                                            "HTTPStatusError", status, doc, NoValue)
                              ELSE Answered("query_platform_statistics", args, "ok",
                                            status, doc,
                                            [kind |-> "dict", shaped |-> shaped,
                                             union |-> union,
                                             dict |-> IF bindings # <<>>
                                                        THEN bindings[1]
                                                        ELSE EmptyDict])
             /\ UNCHANGED <<platforms, changes, now, clientClosed>>

(***************************************************************************)
(* semantic_search                                                          *)
(***************************************************************************)
\* a row of the answer: the variables the SELECT clause names
SearchRow(r) ==
  [change |-> r.change, platform |-> r.platform, severity |-> r.severity,
   summary |-> r.summary, detectedAt |-> r.detectedAt]

SearchDoc(keywords) ==
  [form |-> "semantic_search",
   keywords |-> [i \in 1..Len(keywords) |-> Quote(keywords[i])]]

semantic_search ==
  \E keywords \in KeywordLists :
    LET args == [keywords |-> keywords]
        doc == SearchDoc(keywords)
    IN  IF clientClosed
          THEN /\ last' = Raised("semantic_search", args, "RuntimeError")
               /\ UNCHANGED <<platforms, changes, now, clientClosed, sent>>
        ELSE /\ sent < MaxRequests
             /\ sent' = sent + 1
             /\ \E status \in StoreStatuses(doc), union \in BOOLEAN, shaped \in BOOLEAN :
                  last' = IF raise_for_status(status)
                            THEN Answered("semantic_search", args, "HTTPStatusError",
                                          status, doc, NoValue)
                            ELSE LET sols == Limit(OrderByDesc(SearchSolutions(union, doc)),
                                                   SearchLimit)
                                 IN  Answered("semantic_search", args, "ok", status, doc,
                                       [kind |-> "rows", shaped |-> shaped,
                                        union |-> union,
                                        rows |-> IF shaped
                                                   THEN [i \in 1..Len(sols) |->
                                                           SearchRow(sols[i])]
                                                   ELSE <<>>])
             /\ UNCHANGED <<platforms, changes, now, clientClosed>>

(***************************************************************************)
(* export_graph: the response's text is returned whatever its status.       *)
(***************************************************************************)
\* the body of the store's answer to a CONSTRUCT of a named graph
ResponseText(graph_uri, status) ==
  IF status = OK THEN [serialized |-> TRUE, graph |-> graph_uri]
  ELSE [serialized |-> FALSE, graph |-> "error page"]

export_graph ==
  \E graph_uri \in Graphs :
    LET args == [graph_uri |-> graph_uri, format |-> "turtle"]
        doc == [form |-> "export_graph", graph |-> graph_uri]
    IN  IF clientClosed
          THEN /\ last' = Raised("export_graph", args, "RuntimeError")
               /\ UNCHANGED <<platforms, changes, now, clientClosed, sent>>
        ELSE /\ sent < MaxRequests
             /\ sent' = sent + 1
             /\ \E status \in StoreStatuses(doc) :
                  last' = Answered("export_graph", args, "ok", status, doc,
                                   [kind |-> "text",
                                    text |-> ResponseText(graph_uri, status)])
             /\ UNCHANGED <<platforms, changes, now, clientClosed>>

\* what close() leaves behind; "already" notes that the client was closed before
Closed(outcome) ==
  [op |-> "close", args |-> <<>>, outcome |-> outcome, requested |-> FALSE,
   status |-> 0, doc |-> NoDoc,
   value |-> [kind |-> "close", already |-> clientClosed]]

\* a close() that raises when the client is closed already
close_once ==
  /\ clientClosed' = TRUE
  /\ last' = Closed(IF clientClosed THEN "RuntimeError" ELSE "ok")
  /\ UNCHANGED <<platforms, changes, now, sent>>

\* close(): client.aclose() closes the client when it is open and does
\* nothing when it is closed; it raises in neither case
close ==
  /\ clientClosed' = TRUE
  /\ last' = Closed("ok")
  /\ UNCHANGED <<platforms, changes, now, sent>>

Next ==
  \/ Tick
  \/ insert_platform
  \/ insert_policy_change
  \/ query_recent_changes
  \/ query_platform_statistics
  \/ semantic_search
  \/ export_graph
  \/ close

Spec == Init /\ [][Next]_vars

(***************************************************************************)
(* The failures of the specification's taxonomy, as the code raises them:   *)
(* the one exception an identifier can cause is the Exception of            *)
(* URIRef.n3(), and the transport failure is raise_for_status()'s           *)
(* HTTPStatusError.  Nothing in the code raises for a value or an argument. *)
(***************************************************************************)
InvalidIdentifier == "Exception"
StoreRequestFailed == "HTTPStatusError"
InvalidValue == "InvalidValue"
InvalidArgument == "InvalidArgument"

\* letters, digits, '-' and '_' (of the model's alphabet)
AllowedIdChars == {"a", "b", "0", "-", "_"}
OutsideAllowed(id) == \E i \in 1..Len(id) : id[i] \notin AllowedIdChars

\* confidence scores in [0,1], in tenths
ScoreRange == 0..10

HasQuoteOrBackslash(s) == \E i \in 1..Len(s) : s[i] \in {DQ, BS}

\* the literal is read back as exactly the text it was written from
ReadsBackAs(frag, s) == OneLiteral(frag) /\ ParseLiteral(frag).value = s

\* the identifiers the last operation was called with
LastIds ==
  CASE last.op \in {"insert_platform", "query_platform_statistics"} ->
         {last.args.platform_id}
    [] last.op = "insert_policy_change" ->
         {last.args.change_id, last.args.platform_id, last.args.policy_document_id}
    [] OTHER -> {}

\* C1: an operation called with an identifier that holds a character outside
\* letters, digits, '-' and '_' fails with InvalidIdentifier and sends no
\* request to the store.
C1_BadIdentifierRejected ==
  (\E id \in LastIds : OutsideAllowed(id)) =>
    /\ last.outcome = InvalidIdentifier
    /\ ~last.requested

\* C2: insert_policy_change with a confidence score outside [0,1] fails with
\* InvalidValue, sends no request, and the changes graph does not hold the score.
C2_BadConfidenceRejected ==
  (last.op = "insert_policy_change" /\ last.args.confidence_score \notin ScoreRange) =>
    /\ last.outcome = InvalidValue
    /\ ~last.requested
    /\ <<CHANGE(last.args.change_id), last.args.confidence_score>>
         \notin changes.confidenceScore

\* C3: semantic_search with an empty keyword list fails with InvalidArgument
\* before any request; no document with an empty keyword filter is sent.
C3_EmptyKeywordsRejected ==
  (last.op = "semantic_search" /\ last.args.keywords = <<>>) =>
    /\ last.outcome = InvalidArgument
    /\ ~last.requested

\* C4: every severity, platform label and keyword that query_recent_changes
\* and semantic_search embed is escaped, so that its literal ends at its own
\* closing quote and denotes the text given.
C4_QueryLiteralsEscaped ==
  /\ (last.op = "semantic_search" /\ last.doc.form = "semantic_search") =>
       \A i \in 1..Len(last.args.keywords) :
         ReadsBackAs(last.doc.keywords[i], last.args.keywords[i])
  /\ (last.op = "query_recent_changes" /\ last.doc.form = "query_recent_changes") =>
       /\ last.args.severity # <<>> =>
            ReadsBackAs(last.doc.severity_filter, last.args.severity)
       /\ last.args.platform # <<>> =>
            ReadsBackAs(last.doc.platform_filter, last.args.platform)

\* C5: a change_summary, name or display_name that holds a double quote or a
\* backslash is written into the insert document as a literal that the
\* grammar's string-literal rules read back as exactly the original text.
C5_InsertLiteralRoundTrip ==
  /\ (last.op = "insert_policy_change" /\ last.doc.form = "insert_policy_change"
      /\ HasQuoteOrBackslash(last.args.change_summary)) =>
       ReadsBackAs(last.doc.changeSummary, last.args.change_summary)
  /\ (last.op = "insert_platform" /\ last.doc.form = "insert_platform") =>
       /\ HasQuoteOrBackslash(last.args.name) =>
            ReadsBackAs(last.doc.name, last.args.name)
       /\ HasQuoteOrBackslash(last.args.display_name) =>
            ReadsBackAs(last.doc.label, last.args.display_name)

\* C6: query_recent_changes with days > 0 returns a sequence of rows or fails
\* with StoreRequestFailed, and returns a sequence when the store answers
\* with success and a well-formed result.
C6_RecentChangesResult ==
  (last.op = "query_recent_changes" /\ last.args.days > 0 /\ ~clientClosed) =>
    /\ last.outcome \in {"ok", StoreRequestFailed}
    /\ last.outcome = "ok" => last.value.kind = "rows"
    /\ last.status = OK => last.outcome = "ok"

\* C7: query_platform_statistics on a platform without changes returns a
\* record with total_changes = 0, critical_changes = 0 and no average,
\* whether the store answers with no aggregate row or with one.
C7_ZeroChangeStatistics ==
  (/\ last.op = "query_platform_statistics"
   /\ last.outcome = "ok"
   /\ last.value.shaped
   /\ StatsInner(PLATFORM(last.args.platform_id)) = {}) =>
    /\ {"totalChanges", "criticalChanges"} \subseteq last.value.dict.present
    /\ last.value.dict.totalChanges = 0
    /\ last.value.dict.criticalChanges = 0
    /\ "avgConfidence" \notin last.value.dict.present

\* C8: an operation whose request is answered with a non-success status
\* fails with StoreRequestFailed; export_graph returns no such response's body.
C8_NonSuccessFails ==
  (last.requested /\ last.status # OK) => last.outcome = StoreRequestFailed

\* C9: after insert_platform succeeds, the platforms graph holds for that
\* platform exactly one value of each attribute, the one the call wrote.
C9_PlatformOverwritten ==
  (last.op = "insert_platform" /\ last.outcome = "ok") =>
    LET p == last.doc.subject IN
    /\ Objects(platforms.label, p) = {ParseLiteral(last.doc.label).value}
    /\ Objects(platforms.name, p) = {ParseLiteral(last.doc.name).value}
    /\ Objects(platforms.apiEnabled, p) = {last.doc.apiEnabled}
    /\ Objects(platforms.monitoringActive, p) = {last.doc.monitoringActive}
    /\ Objects(platforms.createdAt, p) = {last.doc.createdAt}

\* the changes of the changes graph whose summary contains one of the keywords
Matching(keywords) ==
  {c \in changes.type :
     \E s \in Objects(changes.changeSummary, c), i \in 1..Len(keywords) :
       CONTAINS(s, keywords[i])}

\* C10: semantic_search with a non-empty keyword list returns exactly the
\* changes whose summary contains one of the keywords, whether or not the
\* platform a change references exists or has a label.
C10_SearchReturnsMatches ==
  (/\ last.op = "semantic_search"
   /\ last.args.keywords # <<>>
   /\ last.outcome = "ok"
   /\ last.value.shaped) =>
    {last.value.rows[i].change : i \in 1..Len(last.value.rows)}
      = Matching(last.args.keywords)

DecodeFailed == "DecodeFailed"

\* C11: when the store answers a select query with success but a body without
\* the results/bindings structure, query_recent_changes, semantic_search and
\* query_platform_statistics fail with DecodeFailed; they return an empty
\* sequence or record only for a result set that is empty.
C11_MalformedBodyFails ==
  (/\ last.op \in {"query_recent_changes", "semantic_search",
                   "query_platform_statistics"}
   /\ last.requested
   /\ last.status = OK
   /\ last.value.kind \in {"rows", "dict"}
   /\ ~last.value.shaped) =>
    last.outcome = DecodeFailed

\* C12: close never fails and is idempotent: whenever it is called it raises
\* nothing and the client is closed afterwards, a closed client stays closed,
\* and a close of a closed client changes nothing of the adapter or the store.
C12_CloseIdempotent ==
  [][/\ clientClosed => clientClosed'
     /\ last'.op = "close" =>
          /\ last'.outcome = "ok"
          /\ clientClosed'
          /\ last'.value.already =>
               UNCHANGED <<platforms, changes, sent, clientClosed>>]_vars

\* close was called on a client that an earlier close had closed, after
\* requests had been sent
C12_Witness ==
  /\ last.op = "close"
  /\ last.value.already
  /\ clientClosed
  /\ sent > 0

\* the changes detected after now - days, each with a label its platform has
\* in the platforms graph
RecentWithLabel(days) ==
  {e \in changes.type \X Range(platforms.label) :
     /\ \E p \in Objects(changes.affectsPlatform, e[1]) :
          <<p, e[2]>> \in platforms.label
     /\ \E t \in Objects(changes.detectedAt, e[1]) : t > now - days}

\* C13: after insert_platform(p) and insert_policy_change of a change that
\* affects p and was detected within the last `days` days,
\* query_recent_changes(days) returns the change with p's label, and no
\* change detected before the time bound.
C13_RecentChangesJoinsLabel ==
  (/\ last.op = "query_recent_changes"
   /\ last.args.severity = <<>>
   /\ last.args.platform = <<>>
   /\ ~clientClosed
   /\ last.outcome # StoreRequestFailed
   /\ RecentWithLabel(last.args.days) # {}) =>
    /\ last.outcome = "ok"
    /\ last.value.shaped =>
         /\ \A e \in RecentWithLabel(last.args.days) :
              \E i \in 1..Len(last.value.rows) :
                /\ last.value.rows[i].change = e[1]
                /\ last.value.rows[i].platformLabel = e[2]
         /\ \A i \in 1..Len(last.value.rows) :
              last.value.rows[i].detectedAt > last.doc.since

\* the changes of the changes graph that affect the platform
PlatformChanges(platform) ==
  {c \in changes.type : <<c, platform>> \in changes.affectsPlatform}

\* C14: for a platform that has changes, the statistics give total_changes as
\* the number of its changes in the changes graph, critical_changes as the
\* number of those whose severity is "critical" (so at most total_changes),
\* and the average confidence as the mean over its changes, each counted once
\* however many critical changes there are.
C14_StatisticsCounts ==
  (/\ last.op = "query_platform_statistics"
   /\ last.outcome = "ok"
   /\ last.value.shaped
   /\ PlatformChanges(PLATFORM(last.args.platform_id)) # {}) =>
    LET p == PLATFORM(last.args.platform_id)
        d == last.value.dict
    IN  /\ d.totalChanges = Cardinality(PlatformChanges(p))
        /\ d.criticalChanges =
             Cardinality({c \in PlatformChanges(p) : <<c, CRITICAL>> \in changes.severity})
        /\ d.criticalChanges <= d.totalChanges
        /\ d.avgConfidence.sum * Cardinality(StatsInner(p))
             = Sum(StatsInner(p)) * d.avgConfidence.count

\* the same, for the answers of a store whose default graph is the union of
\* the named graphs
C14_StatisticsCountsUnion ==
  (last.op = "query_platform_statistics" /\ last.outcome = "ok" /\ last.value.union)
    => C14_StatisticsCounts

====
